---------------------------- MODULE Spec2Model ----------------------------
(***************************************************************************)
(* The claude_code_server of agent_skills: the session manager, the task   *)
(* executor, the per-task event queues and the HTTP / WebSocket handlers,  *)
(* as one state machine.                                                   *)
(*                                                                         *)
(* Scheduling: the server runs on one asyncio event loop, so a handler     *)
(* runs atomically from one suspension to the next.  The suspensions are   *)
(* the agent calls (connect, disconnect, interrupt, query, the response    *)
(* stream), asyncio.sleep, Queue.get on an empty queue, and the            *)
(* acquisition of a held manager lock.  Queue.put never suspends: the      *)
(* queues are built with asyncio.Queue(), which is unbounded.              *)
(*                                                                         *)
(* Objects: a Session, a registry entry (the dict stored in running_tasks),*)
(* a TaskExecutor and its background asyncio task are all created by one   *)
(* accepted submission, so they share that submission's index 1..MaxSubmits*)
(* as their identity.  A queue object is created by the stream handler     *)
(* that first subscribes, and is identified by that handler.               *)
(***************************************************************************)
EXTENDS Integers, Sequences, FiniteSets, TLC

\* ---------------------------------------------------------------- bounds
\* accepted submissions (each makes one executor, at most one session)
MaxSubmits == 3
\* agent messages one executor consumes before the stream must end
MaxMsgs == 1
\* the clock stops advancing here
MaxTime == 1

\* ------------------------------------------------- configuration values
\* config.session.max_concurrent (default 10), scaled down
max_concurrent == 2
\* config.session.idle_timeout_seconds (default 1800), scaled down
idle_timeout_seconds == 0
\* websocket_endpoint: retries = 10, scaled down
retries_init == 1
\* config.task.max_queue_size (default 100), scaled down; no code reads it
max_queue_size == 2

TaskIds == {"t1", "t2", "t3"}
SessionIds == {"session-t1", "session-t2", "session-t3"}
Subs == 1..MaxSubmits
\* the stream handlers (WebSocket connections) that may be opened
Handlers == {1, 2}

\* server.py:173  session_id = f"session-{request.task_id}"
SessionIdOf(t) == "session-" \o t

\* ---------------------------------------------------------------- values
\* models.py TaskProgress()
TaskProgress0 ==
    [turns |-> 0, tokens_used |-> 0, tokens_input |-> 0, tokens_output |-> 0,
     files_modified |-> 0, elapsed_time_ms |-> 0]

\* An event as handed to publish_event.  src and n stamp the publishing
\* executor and the position of the publish among that executor's publishes.
Event(type, sub, code, err, errs, prog, src, n) ==
    [type |-> type, message_type |-> sub, exit_code |-> code, error |-> err,
     errors |-> errs, progress |-> prog, src |-> src, n |-> n]

\* Messages of the agent's response stream (claude_agent_sdk).
AssistantMessage(blocks) ==
    [kind |-> "assistant", blocks |-> blocks, num_turns |-> 0, duration_ms |-> 0,
     total_tokens |-> 0]
UserMessage ==
    [kind |-> "user", blocks |-> <<>>, num_turns |-> 0, duration_ms |-> 0,
     total_tokens |-> 0]
ResultMessage(turns, dur, tok) ==
    [kind |-> "result", blocks |-> <<>>, num_turns |-> turns, duration_ms |-> dur,
     total_tokens |-> tok]

\* A content block: its kind and, for a tool result, the form of its
\* content ("str" or "list") and the number of texts in it that hold
\* "written successfully" or "modified": the text items of a list, or the
\* one text that a string content is.
Block(kind, form, hits) == [kind |-> kind, form |-> form, hits |-> hits]

\* the messages the agent may yield; the second ResultMessage reports fewer
\* turns and a shorter duration than the executor counts for any message
AgentMessages ==
    { AssistantMessage(<<Block("text", "", 0)>>),
      AssistantMessage(<<Block("tool_result", "list", 1)>>),
      AssistantMessage(<<Block("tool_result", "str", 1)>>),
      ResultMessage(1, 1, 1),
      ResultMessage(0, 0, 0) }

\* what str(e) may be for an exception of the agent: a message, or the
\* empty string of an exception raised without arguments
AgentErrors == {"boom", ""}

\* ----------------------------------------------------------------- state
VARIABLES
    now,            \* datetime.utcnow(), in abstract ticks
    sessions,       \* SessionManager.sessions: session id -> Session object (0: absent)
    session,        \* the Session objects, by identity
    running_tasks,  \* server.running_tasks: task id -> registry entry (0: absent)
    task_info,      \* the registry entries, by identity
    executor,       \* the TaskExecutor objects and their background tasks, by identity
    nsub,           \* submissions accepted so far
    lock,           \* SessionManager._lock: who holds it
    pending,        \* the arguments of the call that holds the lock across an await
    idle_sessions,  \* _cleanup_idle_sessions: the part of its list not yet handled
    swept,          \* the ids the running reaper pass listed (history)
    running,        \* SessionManager._running: "up", "stopping" or "stopped"
    handler,        \* the websocket_endpoint invocations
    queues,         \* the asyncio.Queue objects, by identity
    interrupting    \* the interrupt_task call suspended in client.interrupt()

vars == <<now, sessions, session, running_tasks, task_info, executor, nsub, lock,
          pending, idle_sessions, swept, running, handler, queues, interrupting>>

NoQueues == [t \in TaskIds |-> 0]

\* Session.__init__ (client: "none" before the object exists)
NoSession ==
    [session_id |-> "", tasks |-> <<>>, last_activity |-> 0,
     event_queues |-> NoQueues, client |-> "none"]
NewSession(sid) ==
    [session_id |-> sid, tasks |-> <<>>, last_activity |-> now,
     event_queues |-> NoQueues, client |-> "connected"]

NoTaskInfo == [task_id |-> "", session_id |-> "", status |-> "none"]

\* TaskExecutor.__init__ and the asyncio task that runs execute
NoExecutor ==
    [task_id |-> "", session |-> 0, pc |-> "none", progress |-> TaskProgress0,
     start_time |-> 0, emitted |-> <<>>, nmsg |-> 0, exception |-> FALSE]
NewExecutor(t, s) ==
    [NoExecutor EXCEPT !.task_id = t, !.session = s, !.pc = "recv", !.start_time = now]

NoHandler ==
    [pc |-> "unopened", task_id |-> "", retries |-> 0, session |-> 0, queue |-> 0,
     connected |-> FALSE, received |-> <<>>, close_code |-> 0, error_frames |-> 0]

NoSweep == [idle |-> {}, busy |-> {}]
\* websocket_endpoint has returned: its locals are gone, what the client saw
\* last (the close code, the error frames) remains
ClosedHandler(code, frames) ==
    [NoHandler EXCEPT !.pc = "closed", !.close_code = code, !.error_frames = frames]

NoPending == [task_id |-> "", session_id |-> ""]

Init ==
    /\ now = 0
    /\ sessions = [sid \in SessionIds |-> 0]
    /\ session = [i \in Subs |-> NoSession]
    /\ running_tasks = [t \in TaskIds |-> 0]
    /\ task_info = [i \in Subs |-> NoTaskInfo]
    /\ executor = [i \in Subs |-> NoExecutor]
    /\ nsub = 0
    /\ lock = "free"
    /\ pending = NoPending
    /\ idle_sessions = <<>>
    /\ swept = NoSweep
    /\ running = "up"
    /\ handler = [h \in Handlers |-> NoHandler]
    /\ queues = [h \in Handlers |-> <<>>]
    /\ interrupting = 0

\* ------------------------------------------------------- Session methods
\* Session.add_task
add_task(s, t) == [s EXCEPT !.tasks = Append(@, t), !.last_activity = now]

\* list.remove: drops the first occurrence
RECURSIVE RemoveFirst(_, _)
RemoveFirst(q, t) ==
    IF q = <<>> THEN <<>>
    ELSE IF Head(q) = t THEN Tail(q)
    ELSE <<Head(q)>> \o RemoveFirst(Tail(q), t)

\* Session.remove_task
remove_task(s, t) == [s EXCEPT !.tasks = RemoveFirst(@, t), !.last_activity = now]

\* Session.subscribe_task: the queue object the caller gets; q is the
\* identity a newly made queue would have
subscribe_task(s, t, q) == IF s.event_queues[t] = 0 THEN q ELSE s.event_queues[t]

\* Session.unsubscribe_task
unsubscribe_task(s, t) == [s EXCEPT !.event_queues[t] = 0]

\* as publish_event, putting the event at the head of the queue
publish_event_at_head(s, t, ev, qs) ==
    IF s.event_queues[t] # 0
    THEN [qs EXCEPT ![s.event_queues[t]] = <<ev>> \o @]
    ELSE qs

\* as publish_event, with the event of a task without a queue put on the
\* first queue object
publish_event_on_first_queue(s, t, ev, qs) ==
    IF s.event_queues[t] # 0
    THEN [qs EXCEPT ![s.event_queues[t]] = Append(@, ev)]
    ELSE [qs EXCEPT ![1] = Append(@, ev)]

\* Session.publish_event: the queue objects after publishing ev for task t
\* on session object s
publish_event(s, t, ev, qs) ==
    IF s.event_queues[t] # 0
    THEN [qs EXCEPT ![s.event_queues[t]] = Append(@, ev)]
    ELSE qs

\* Session.is_idle
is_idle(s) ==
    IF Len(s.tasks) > 0 THEN FALSE
    ELSE now - s.last_activity > idle_timeout_seconds

\* SessionManager.get_active_count
get_active_count == Cardinality({sid \in SessionIds : sessions[sid] # 0})

\* as readiness_check, answering 503 only above max_concurrent
readiness_check_above_capacity ==
    IF get_active_count > max_concurrent THEN 503 ELSE 200

\* the answer to GET /ready
readiness_check ==
    IF get_active_count >= max_concurrent THEN 503 ELSE 200

\* ------------------------------------------------------------ create_task
\* A request that is refused changes no state: its answer is an operator of
\* the state the request runs in (the manager lock free), and only accepted
\* requests are actions.

\* as create_session_error, without the check of the id
create_session_error_no_id_check(sid, workspace_exists) ==
    IF get_active_count >= max_concurrent THEN "AT_CAPACITY"
    ELSE IF ~workspace_exists THEN "INVALID_WORKSPACE"
    ELSE "none"

\* as create_session_error, without the capacity check
create_session_error_no_capacity_check(sid, workspace_exists) ==
    IF sessions[sid] # 0 THEN "ALREADY_EXISTS"
    ELSE IF ~workspace_exists THEN "INVALID_WORKSPACE"
    ELSE "none"

\* SessionManager.create_session, the checks under the lock, in the code's
\* order: the id, the capacity, the workspace.
create_session_error(sid, workspace_exists) ==
    IF sessions[sid] # 0 THEN "ALREADY_EXISTS"
    ELSE IF get_active_count >= max_concurrent THEN "AT_CAPACITY"
    ELSE IF ~workspace_exists THEN "INVALID_WORKSPACE"
    ELSE "none"

\* the exception class create_session raises for each refusal
exception_class(err) ==
    CASE err = "ALREADY_EXISTS" -> "ValueError"
      [] err = "AT_CAPACITY" -> "RuntimeError"
      [] err = "INVALID_WORKSPACE" -> "ValueError"
      [] OTHER -> "none"

\* create_task's except clauses: the HTTP status for an exception class
\* raised inside its try block (an HTTPException raised there is caught by
\* `except Exception`)
status_code(cls) ==
    CASE cls = "none" -> 200
      [] cls = "ValueError" -> 400
      [] cls = "RuntimeError" -> 503
      [] OTHER -> 500

\* the answer to a submission of t without session reuse
create_task_new_code(t, workspace_exists) ==
    status_code(exception_class(create_session_error(SessionIdOf(t), workspace_exists)))

\* the answer to a submission of t that reuses session sid
create_task_reuse_code(t, sid) ==
    IF sessions[sid] = 0 THEN status_code("HTTPException") ELSE status_code("none")

\* the TaskResponse of an accepted submission of t on session sid
TaskResponse(t, sid) == [task_id |-> t, session_id |-> sid, status |-> "running"]

\* as StartTask, without the call of add_task
StartTask_without_add_task(i, t, sid, s, sn) ==
    /\ session' = [session EXCEPT ![s] = sn]
    /\ executor' = [executor EXCEPT ![i] = NewExecutor(t, s)]
    /\ task_info' = [task_info EXCEPT ![i] =
                        [task_id |-> t, session_id |-> sid, status |-> "running"]]
    /\ running_tasks' = [running_tasks EXCEPT ![t] = i]
    /\ nsub' = i

\* server.create_task, lines 181-201: add the task to the session, start the
\* executor, register the task.  i is the identity of the new registry entry
\* and executor, s the Session object, sn its value before add_task.  The
\* background task is taken to reach its first suspension (start_time set,
\* the query sent) at once.
StartTask(i, t, sid, s, sn) ==
    /\ session' = [session EXCEPT ![s] = add_task(sn, t)]
    /\ executor' = [executor EXCEPT ![i] = NewExecutor(t, s)]
    /\ task_info' = [task_info EXCEPT ![i] =
                        [task_id |-> t, session_id |-> sid, status |-> "running"]]
    /\ running_tasks' = [running_tasks EXCEPT ![t] = i]
    /\ nsub' = i

\* as CreateTaskNew, with create_session not waiting for the manager lock
CreateTaskNew_without_lock(t, workspace_exists) ==
    /\ running = "up"
    /\ nsub < MaxSubmits
    /\ create_session_error(SessionIdOf(t), workspace_exists) = "none"
    /\ lock' = "create"
    /\ pending' = [task_id |-> t, session_id |-> SessionIdOf(t)]
    /\ UNCHANGED <<now, sessions, session, running_tasks, task_info, executor, nsub,
                   idle_sessions, swept, running, handler, queues, interrupting>>

\* create_task without session reuse, up to the await of client.connect():
\* create_session holds the lock from its checks to the insertion.
CreateTaskNew(t, workspace_exists) ==
    /\ running = "up"
    /\ lock = "free"
    /\ nsub < MaxSubmits
    /\ create_session_error(SessionIdOf(t), workspace_exists) = "none"
    /\ lock' = "create"
    /\ pending' = [task_id |-> t, session_id |-> SessionIdOf(t)]
    /\ UNCHANGED <<now, sessions, session, running_tasks, task_info, executor, nsub,
                   idle_sessions, swept, running, handler, queues, interrupting>>

\* client.connect() returns: the session is inserted and the lock released;
\* create_task goes on without suspending.
ConnectReturns ==
    /\ lock = "create"
    /\ LET i == nsub + 1
           t == pending.task_id
           sid == pending.session_id
       IN /\ sessions' = [sessions EXCEPT ![sid] = i]
          /\ StartTask(i, t, sid, i, NewSession(sid))
    /\ lock' = "free"
    /\ pending' = NoPending
    /\ UNCHANGED <<now, idle_sessions, swept, running, handler, queues, interrupting>>

\* the classes of the exceptions client.connect() may raise
ConnectErrors == {"CLIConnectionError", "RuntimeError"}

\* client.connect() raises an exception of class cls: create_session
\* re-raises it and nothing was inserted; create_task answers
\* status_code(cls).
ConnectRaises(cls) ==
    /\ cls \in ConnectErrors
    /\ lock = "create"
    /\ lock' = "free"
    /\ pending' = NoPending
    /\ UNCHANGED <<now, sessions, session, running_tasks, task_info, executor, nsub,
                   idle_sessions, swept, running, handler, queues, interrupting>>

\* as CreateTaskReuse, with get_session not taking the manager lock
CreateTaskReuse_without_lock(t, sid) ==
    /\ running = "up"
    /\ nsub < MaxSubmits
    /\ sessions[sid] # 0
    /\ StartTask(nsub + 1, t, sid, sessions[sid], session[sessions[sid]])
    /\ UNCHANGED <<now, sessions, lock, pending, idle_sessions, swept, running,
                   handler, queues, interrupting>>

\* create_task with reuse_existing and a session_id that is in the table:
\* get_session takes the lock, and the rest runs without suspending.
CreateTaskReuse(t, sid) ==
    /\ running = "up"
    /\ lock = "free"
    /\ nsub < MaxSubmits
    /\ sessions[sid] # 0
    /\ StartTask(nsub + 1, t, sid, sessions[sid], session[sessions[sid]])
    /\ UNCHANGED <<now, sessions, lock, pending, idle_sessions, swept, running,
                   handler, queues, interrupting>>

\* ---------------------------------------------------------- TaskExecutor
\* The executor's working state inside one atomic step: self.progress, the
\* events published in the step, and what the stamps need.
StepState(i) ==
    [progress |-> executor[i].progress, out |-> <<>>,
     base |-> Len(executor[i].emitted), src |-> i, start |-> executor[i].start_time]

\* one call of self.session.publish_event(self.task_id, event.model_dump())
Emit(st, type, sub, code, err, errs) ==
    [st EXCEPT !.out = Append(@, Event(type, sub, code, err, errs,
                                       IF type = "progress" THEN st.progress
                                       ELSE TaskProgress0,
                                       st.src, st.base + Len(st.out) + 1))]

\* TaskExecutor._emit_message
emit_message(st, sub) == Emit(st, "message", sub, -1, "", <<>>)

\* TaskExecutor._emit_tool_use
emit_tool_use(st) == Emit(st, "tool_use", "", -1, "", <<>>)

\* TaskExecutor._emit_tool_result: publish, then count the file
\* modifications, which looks only into a content that is a list
emit_tool_result(st, b) ==
    LET published == Emit(st, "tool_result", "", -1, "", <<>>)
    IN [published EXCEPT !.progress.files_modified =
                             @ + (IF b.form = "list" THEN b.hits ELSE 0)]

\* TaskExecutor._emit_progress: elapsed_time_ms is recomputed from the clock
emit_progress(st) ==
    Emit([st EXCEPT !.progress.elapsed_time_ms = now - st.start],
         "progress", "", -1, "", <<>>)

\* as emit_error, publishing a fixed text in place of the message
emit_error_fixed_text(st, msg) == Emit(st, "error", "", -1, "Task failed", <<>>)

\* TaskExecutor._emit_error
emit_error(st, msg) == Emit(st, "error", "", -1, msg, <<>>)

\* TaskExecutor._complete_task
complete_task(st, success, error) ==
    Emit(st, "complete", "", IF success THEN 0 ELSE 1, "",
         IF error # "" THEN <<error>> ELSE <<>>)

\* the loop over message.content in _handle_assistant_message
RECURSIVE handle_blocks(_, _)
handle_blocks(st, blocks) ==
    IF blocks = <<>> THEN st
    ELSE LET b == Head(blocks)
             st1 == CASE b.kind = "text" -> emit_message(st, "assistant")
                      [] b.kind = "thinking" -> emit_message(st, "thinking")
                      [] b.kind = "tool_use" -> emit_tool_use(st)
                      [] b.kind = "tool_result" -> emit_tool_result(st, b)
                      [] OTHER -> st
         IN handle_blocks(st1, Tail(blocks))

\* as handle_assistant_message, publishing the progress before the blocks
handle_assistant_message_progress_first(st, m) ==
    handle_blocks(emit_progress([st EXCEPT !.progress.turns = @ + 1]), m.blocks)

\* TaskExecutor._handle_assistant_message
handle_assistant_message(st, m) ==
    emit_progress(handle_blocks([st EXCEPT !.progress.turns = @ + 1], m.blocks))

\* TaskExecutor._handle_message
handle_message(st, m) ==
    CASE m.kind = "assistant" -> handle_assistant_message(st, m)
      [] m.kind = "user" -> emit_message(st, "user")
      [] m.kind = "system" -> emit_message(st, "system")
      [] OTHER -> st

\* TaskExecutor._handle_result
handle_result(st, m) ==
    emit_progress([st EXCEPT !.progress.tokens_used = m.total_tokens,
                             !.progress.turns = m.num_turns,
                             !.progress.elapsed_time_ms = m.duration_ms])

\* the events of one step reach the task's queue in the order published
RECURSIVE publish_all(_, _, _, _)
publish_all(s, t, evs, qs) ==
    IF evs = <<>> THEN qs
    ELSE publish_all(s, t, Tail(evs), publish_event(s, t, Head(evs), qs))

\* as Published, with a publish that waits for a subscriber's queue
Published_waits_for_subscriber(i, st) ==
    /\ session[executor[i].session].event_queues[executor[i].task_id] # 0
    /\ queues' = publish_all(session[executor[i].session], executor[i].task_id,
                             st.out, queues)

\* the executor's state and the queues after a step that published st.out
Published(i, st) ==
    /\ queues' = publish_all(session[executor[i].session], executor[i].task_id,
                             st.out, queues)

\* execute returns: its finally block removes the task from the session
Returns(i, st) ==
    /\ executor' = [executor EXCEPT ![i].progress = st.progress,
                                    ![i].emitted = @ \o st.out,
                                    ![i].pc = "done"]
    /\ session' = [session EXCEPT ![executor[i].session] =
                       remove_task(@, executor[i].task_id)]
    /\ Published(i, st)

\* receive_response yields m: _handle_message, and for a ResultMessage
\* _handle_result, the break, _complete_task(success=True) and the return.
ExecMessage(i, m) ==
    /\ executor[i].pc = "recv"
    /\ m.kind = "result" \/ executor[i].nmsg < MaxMsgs
    /\ LET st == handle_message(StepState(i), m) IN
       IF m.kind = "result"
       THEN Returns(i, complete_task(handle_result(st, m), TRUE, ""))
       ELSE /\ executor' = [executor EXCEPT ![i].progress = st.progress,
                                            ![i].emitted = @ \o st.out,
                                            ![i].nmsg = @ + 1]
            /\ Published(i, st)
            /\ UNCHANGED session
    /\ UNCHANGED <<now, sessions, running_tasks, task_info, nsub, lock, pending,
                   idle_sessions, swept, running, handler, interrupting>>

\* receive_response ends without a ResultMessage: the loop falls through to
\* _complete_task(success=True).
ExecStreamEnds(i) ==
    /\ executor[i].pc = "recv"
    /\ Returns(i, complete_task(StepState(i), TRUE, ""))
    /\ UNCHANGED <<now, sessions, running_tasks, task_info, nsub, lock, pending,
                   idle_sessions, swept, running, handler, interrupting>>

\* as ExecStreamRaises, with _execute_task's own `except` publishing a failed
\* completion before it re-raises
ExecStreamRaises_completes_twice(i, e) ==
    /\ executor[i].pc = "recv"
    /\ Returns(i, complete_task(emit_error(complete_task(StepState(i), FALSE, e), e),
                                FALSE, e))
    /\ UNCHANGED <<now, sessions, running_tasks, task_info, nsub, lock, pending,
                   idle_sessions, swept, running, handler, interrupting>>

\* query or receive_response raises e: execute's `except Exception`.
ExecStreamRaises(i, e) ==
    /\ executor[i].pc = "recv"
    /\ Returns(i, complete_task(emit_error(StepState(i), e), FALSE, e))
    /\ UNCHANGED <<now, sessions, running_tasks, task_info, nsub, lock, pending,
                   idle_sessions, swept, running, handler, interrupting>>

\* as ExecTimeout, with the error event left out
ExecTimeout_without_error_event(i) ==
    /\ executor[i].pc = "recv"
    /\ Returns(i, complete_task(StepState(i), FALSE, "Timeout"))
    /\ UNCHANGED <<now, sessions, running_tasks, task_info, nsub, lock, pending,
                   idle_sessions, swept, running, handler, interrupting>>

\* asyncio.wait_for times out while _execute_task is suspended.
ExecTimeout(i) ==
    /\ executor[i].pc = "recv"
    /\ Returns(i, complete_task(emit_error(StepState(i), "Task execution timed out"),
                                FALSE, "Timeout"))
    /\ UNCHANGED <<now, sessions, running_tasks, task_info, nsub, lock, pending,
                   idle_sessions, swept, running, handler, interrupting>>

\* An exception leaves execute: one that `except Exception` does not catch,
\* or one raised inside an except clause while the failure events are
\* built and published.  Nothing more is published, the finally block
\* removes the task, and the background task finishes with the exception.
ExecEscapes(i) ==
    /\ executor[i].pc = "recv"
    /\ executor' = [executor EXCEPT ![i].pc = "done", ![i].exception = TRUE]
    /\ session' = [session EXCEPT ![executor[i].session] =
                       remove_task(@, executor[i].task_id)]
    /\ UNCHANGED <<now, sessions, running_tasks, task_info, nsub, lock, pending,
                   idle_sessions, swept, running, handler, queues, interrupting>>

\* --------------------------------------------------------- SessionManager
\* the answer to DELETE /api/v1/sessions/{sid}
delete_session_code(sid) == IF sessions[sid] = 0 THEN 404 ELSE 200

\* delete_session for an id in the table, up to the await of
\* client.disconnect()
DeleteSession(sid) ==
    /\ running = "up"
    /\ lock = "free"
    /\ sessions[sid] # 0
    /\ lock' = "delete"
    /\ pending' = [task_id |-> "", session_id |-> sid]
    /\ UNCHANGED <<now, sessions, session, running_tasks, task_info, executor, nsub,
                   idle_sessions, swept, running, handler, queues, interrupting>>

\* as DeleteDisconnected, with the removal skipped when disconnect() raises
DeleteDisconnected_keeps_on_error(ok) ==
    /\ lock = "delete"
    /\ LET sid == pending.session_id IN
       IF ok
       THEN /\ session' = [session EXCEPT ![sessions[sid]].client = "disconnected"]
            /\ sessions' = [sessions EXCEPT ![sid] = 0]
       ELSE UNCHANGED <<session, sessions>>
    /\ lock' = "free"
    /\ pending' = NoPending
    /\ UNCHANGED <<now, running_tasks, task_info, executor, nsub, idle_sessions,
                   swept, running, handler, queues, interrupting>>

\* client.disconnect() returns or raises inside delete_session: the error
\* is logged and the session is removed either way.
DeleteDisconnected(ok) ==
    /\ lock = "delete"
    /\ LET sid == pending.session_id IN
       /\ session' = [session EXCEPT ![sessions[sid]].client =
                          IF ok THEN "disconnected" ELSE @]
       /\ sessions' = [sessions EXCEPT ![sid] = 0]
    /\ lock' = "free"
    /\ pending' = NoPending
    /\ UNCHANGED <<now, running_tasks, task_info, executor, nsub, idle_sessions,
                   swept, running, handler, queues, interrupting>>

\* self.sessions.items() iterates in insertion order, which is the order of
\* the Session objects' creation: the ids of the idle sessions among the
\* objects k..MaxSubmits.
RECURSIVE IdleFrom(_)
IdleFrom(k) ==
    IF k > MaxSubmits THEN <<>>
    ELSE IF /\ \E sid \in SessionIds : sessions[sid] = k
            /\ is_idle(session[k])
         THEN <<session[k].session_id>> \o IdleFrom(k + 1)
         ELSE IdleFrom(k + 1)

\* _cleanup_idle_sessions takes the lock and lists the idle sessions; with
\* none listed it returns at once.  swept records the pass's view of the
\* table: the ids it listed, and the ids whose sessions owned a task.
CleanupWake ==
    /\ running = "up"
    /\ lock = "free"
    /\ IdleFrom(1) # <<>>
    /\ idle_sessions' = IdleFrom(1)
    /\ swept' = [idle |-> {IdleFrom(1)[k] : k \in 1..Len(IdleFrom(1))},
                 busy |-> {sid \in SessionIds :
                             /\ sessions[sid] # 0
                             /\ Len(session[sessions[sid]].tasks) > 0}]
    /\ lock' = "reaper"
    /\ UNCHANGED <<now, sessions, session, running_tasks, task_info, executor, nsub,
                   pending, running, handler, queues, interrupting>>

\* One turn of the reaper's loop: client.disconnect() returns and the
\* session is deleted, or it raises and the `except` logs it, skipping the
\* del.  After the last turn the lock is released.
CleanupDisconnected(ok) ==
    /\ lock = "reaper"
    /\ LET sid == Head(idle_sessions) IN
       IF ok
       THEN /\ session' = [session EXCEPT ![sessions[sid]].client = "disconnected"]
            /\ sessions' = [sessions EXCEPT ![sid] = 0]
       ELSE UNCHANGED <<session, sessions>>
    /\ idle_sessions' = Tail(idle_sessions)
    /\ IF Tail(idle_sessions) = <<>>
       THEN lock' = "free" /\ swept' = NoSweep
       ELSE UNCHANGED <<lock, swept>>
    /\ UNCHANGED <<now, running_tasks, task_info, executor, nsub, pending, running,
                   handler, queues, interrupting>>

\* stop: _running = False and the reaper is cancelled; a reaper suspended
\* in disconnect() gets CancelledError, which its `except Exception` does
\* not catch, and leaves the lock.
StopCancel ==
    /\ running = "up"
    /\ running' = "stopping"
    /\ IF lock = "reaper"
       THEN lock' = "free" /\ idle_sessions' = <<>> /\ swept' = NoSweep
       ELSE UNCHANGED <<lock, idle_sessions, swept>>
    /\ UNCHANGED <<now, sessions, session, running_tasks, task_info, executor, nsub,
                   pending, handler, queues, interrupting>>

\* stop, under the lock: every session is disconnected (errors logged) and
\* the table cleared.
StopDisconnectAll ==
    /\ running = "stopping"
    /\ lock = "free"
    /\ session' = [k \in Subs |->
                      IF \E sid \in SessionIds : sessions[sid] = k
                      THEN [session[k] EXCEPT !.client = "disconnected"]
                      ELSE session[k]]
    /\ sessions' = [sid \in SessionIds |-> 0]
    /\ running' = "stopped"
    /\ UNCHANGED <<now, running_tasks, task_info, executor, nsub, lock, pending,
                   idle_sessions, swept, handler, queues, interrupting>>

\* time passes
Tick ==
    /\ now < MaxTime
    /\ now' = now + 1
    /\ UNCHANGED <<sessions, session, running_tasks, task_info, executor, nsub, lock,
                   pending, idle_sessions, swept, running, handler, queues,
                   interrupting>>

\* ------------------------------------------------------ websocket_endpoint
\* a client opens /ws/tasks/{t}: accept, retries = 10.  The connections are
\* numbered in the order they are opened.
WsOpen(h, t) ==
    /\ running = "up"
    /\ handler[h].pc = "unopened"
    /\ \A g \in Handlers : g < h => handler[g].pc # "unopened"
    /\ handler' = [handler EXCEPT ![h] =
                      [NoHandler EXCEPT !.pc = "poll", !.task_id = t,
                                        !.retries = retries_init, !.connected = TRUE]]
    /\ UNCHANGED <<now, sessions, session, running_tasks, task_info, executor, nsub,
                   lock, pending, idle_sessions, swept, running, queues,
                   interrupting>>

\* the client goes away; the handler notices at its next send
ClientDisconnect(h) ==
    /\ handler[h].pc \in {"poll", "stream"}
    /\ handler[h].connected
    /\ handler' = [handler EXCEPT ![h].connected = FALSE]
    /\ UNCHANGED <<now, sessions, session, running_tasks, task_info, executor, nsub,
                   lock, pending, idle_sessions, swept, running, queues,
                   interrupting>>

\* one turn of the wait loop: the task is not registered, sleep 0.1 s
WsSleep(h) ==
    /\ handler[h].pc = "poll"
    /\ running_tasks[handler[h].task_id] = 0
    /\ handler[h].retries > 0
    /\ handler' = [handler EXCEPT ![h].retries = @ - 1]
    /\ UNCHANGED <<now, sessions, session, running_tasks, task_info, executor, nsub,
                   lock, pending, idle_sessions, swept, running, queues,
                   interrupting>>

\* as WsNotFound, reporting at the first poll that misses the task
WsNotFound_without_window(h) ==
    /\ handler[h].pc = "poll"
    /\ running_tasks[handler[h].task_id] = 0
    /\ handler' = [handler EXCEPT ![h] =
                      IF handler[h].connected THEN ClosedHandler(1008, 1)
                      ELSE ClosedHandler(0, 0)]
    /\ UNCHANGED <<now, sessions, session, running_tasks, task_info, executor, nsub,
                   lock, pending, idle_sessions, swept, running, queues,
                   interrupting>>

\* the wait loop ran out: one error frame, close(1008); with the client
\* gone the send fails and the handler just ends
WsNotFound(h) ==
    /\ handler[h].pc = "poll"
    /\ running_tasks[handler[h].task_id] = 0
    /\ handler[h].retries = 0
    /\ handler' = [handler EXCEPT ![h] =
                      IF handler[h].connected THEN ClosedHandler(1008, 1)
                      ELSE ClosedHandler(0, 0)]
    /\ UNCHANGED <<now, sessions, session, running_tasks, task_info, executor, nsub,
                   lock, pending, idle_sessions, swept, running, queues,
                   interrupting>>

\* The task is registered: get_session under the lock, then subscribe_task,
\* without a suspension in between.  A session that is gone is answered
\* with an error frame and close(1011).
WsSubscribe(h) ==
    /\ handler[h].pc = "poll"
    /\ running_tasks[handler[h].task_id] # 0
    /\ lock = "free"
    /\ LET t == handler[h].task_id
           s == sessions[task_info[running_tasks[t]].session_id]
       IN IF s = 0
          THEN /\ handler' = [handler EXCEPT ![h] =
                                 IF handler[h].connected THEN ClosedHandler(1011, 1)
                                 ELSE ClosedHandler(0, 0)]
               /\ UNCHANGED session
          ELSE /\ handler' = [handler EXCEPT ![h].pc = "stream", ![h].session = s,
                                 ![h].queue = subscribe_task(session[s], t, h)]
               /\ session' = [session EXCEPT ![s].event_queues[t] =
                                 subscribe_task(session[s], t, h)]
    /\ UNCHANGED <<now, sessions, running_tasks, task_info, executor, nsub, lock,
                   pending, idle_sessions, swept, running, queues, interrupting>>

\* as WsForward, with the handler of a client that is gone ending without
\* unsubscribe_task
WsForward_keeps_queue_on_disconnect(h) ==
    /\ handler[h].pc = "stream"
    /\ queues[handler[h].queue] # <<>>
    /\ LET ev == Head(queues[handler[h].queue])
           s == handler[h].session
           t == handler[h].task_id
       IN /\ queues' = [queues EXCEPT ![handler[h].queue] = Tail(@)]
          /\ IF ~handler[h].connected
             THEN /\ handler' = [handler EXCEPT ![h] = ClosedHandler(0, 0)]
                  /\ UNCHANGED session
             ELSE IF ev.type = "complete"
             THEN /\ handler' = [handler EXCEPT ![h] = ClosedHandler(1000, 0)]
                  /\ session' = [session EXCEPT ![s] = unsubscribe_task(@, t)]
             ELSE /\ handler' = [handler EXCEPT ![h].received = Append(@, ev)]
                  /\ UNCHANGED session
    /\ UNCHANGED <<now, sessions, running_tasks, task_info, executor, nsub, lock,
                   pending, idle_sessions, swept, running, interrupting>>

\* event_queue.get() returns an event and send_json forwards it; after a
\* complete event, or when the send fails because the client is gone, the
\* finally block unsubscribes and the handler ends.
WsForward(h) ==
    /\ handler[h].pc = "stream"
    /\ queues[handler[h].queue] # <<>>
    /\ LET ev == Head(queues[handler[h].queue])
           s == handler[h].session
           t == handler[h].task_id
       IN /\ queues' = [queues EXCEPT ![handler[h].queue] = Tail(@)]
          /\ IF ~handler[h].connected
             THEN /\ handler' = [handler EXCEPT ![h] = ClosedHandler(0, 0)]
                  /\ session' = [session EXCEPT ![s] = unsubscribe_task(@, t)]
             ELSE IF ev.type = "complete"
             THEN /\ handler' = [handler EXCEPT ![h] = ClosedHandler(1000, 0)]
                  /\ session' = [session EXCEPT ![s] = unsubscribe_task(@, t)]
             ELSE /\ handler' = [handler EXCEPT ![h].received = Append(@, ev)]
                  /\ UNCHANGED session
    /\ UNCHANGED <<now, sessions, running_tasks, task_info, executor, nsub, lock,
                   pending, idle_sessions, swept, running, interrupting>>

\* ------------------------------------------------- status and interrupt
\* as active_tasks, counting the tasks whose executor has not returned
active_tasks_running_only ==
    Cardinality({t \in TaskIds : /\ running_tasks[t] # 0
                                 /\ executor[running_tasks[t]].pc = "recv"})

\* health_check: active_tasks = len(running_tasks)
active_tasks == Cardinality({t \in TaskIds : running_tasks[t] # 0})

\* as get_task_status, answering the stored status whatever the executor did
get_task_status_stored_only(i) == task_info[i].status

\* get_task_status: the status derived for registry entry i
get_task_status(i) ==
    IF executor[i].pc = "done"
    THEN IF executor[i].exception THEN "failed" ELSE "completed"
    ELSE task_info[i].status

\* get_task_status, the result field of its TaskStatusResponse: a sequence
\* with the TaskResult, empty for None.  The code passes result=None.
get_task_status_result(i) == <<>>

\* the answer to GET /api/v1/tasks/{t}: the HTTP status and the task status
get_task_status_response(t) ==
    IF running_tasks[t] = 0 THEN [code |-> 404, status |-> ""]
    ELSE [code |-> 200, status |-> get_task_status(running_tasks[t])]

\* the answer of interrupt_task when the task or its session is unknown
interrupt_task_code(t) ==
    IF running_tasks[t] = 0 THEN 404
    ELSE IF sessions[task_info[running_tasks[t]].session_id] = 0 THEN 404
    ELSE 200

\* interrupt_task up to the await of session.client.interrupt(): the task
\* and, under the lock, its session were found.
InterruptTask(t) ==
    /\ running = "up"
    /\ lock = "free"
    /\ interrupting = 0
    /\ interrupt_task_code(t) = 200
    /\ interrupting' = running_tasks[t]
    /\ UNCHANGED <<now, sessions, session, running_tasks, task_info, executor, nsub,
                   lock, pending, idle_sessions, swept, running, handler, queues>>

\* client.interrupt() returns (the entry is marked INTERRUPTED, 200) or
\* raises (500).
InterruptReturns(ok) ==
    /\ interrupting # 0
    /\ task_info' = [task_info EXCEPT ![interrupting].status =
                        IF ok THEN "interrupted" ELSE @]
    /\ interrupting' = 0
    /\ UNCHANGED <<now, sessions, session, running_tasks, executor, nsub, lock,
                   pending, idle_sessions, swept, running, handler, queues>>

\* ------------------------------------------------------- specification
Next ==
    \/ \E t \in TaskIds, w \in BOOLEAN : CreateTaskNew(t, w)
    \/ ConnectReturns
    \/ \E cls \in ConnectErrors : ConnectRaises(cls)
    \/ \E t \in TaskIds, sid \in SessionIds : CreateTaskReuse(t, sid)
    \/ \E i \in Subs, m \in AgentMessages : ExecMessage(i, m)
    \/ \E i \in Subs : ExecStreamEnds(i)
    \/ \E i \in Subs, e \in AgentErrors : ExecStreamRaises(i, e)
    \/ \E i \in Subs : ExecTimeout(i)
    \/ \E i \in Subs : ExecEscapes(i)
    \/ \E sid \in SessionIds : DeleteSession(sid)
    \/ \E ok \in BOOLEAN : DeleteDisconnected(ok)
    \/ CleanupWake
    \/ \E ok \in BOOLEAN : CleanupDisconnected(ok)
    \/ StopCancel
    \/ StopDisconnectAll
    \/ \E h \in Handlers, t \in TaskIds : WsOpen(h, t)
    \/ \E h \in Handlers : ClientDisconnect(h)
    \/ \E h \in Handlers : WsSleep(h)
    \/ \E h \in Handlers : WsNotFound(h)
    \/ \E h \in Handlers : WsSubscribe(h)
    \/ \E h \in Handlers : WsForward(h)
    \/ \E t \in TaskIds : InterruptTask(t)
    \/ \E ok \in BOOLEAN : InterruptReturns(ok)
    \/ Tick

Spec == Init /\ [][Next]_vars

\* The session manager with its clients: submissions, deletions, the reaper,
\* shutdown and the clock.  No stream is opened and the agent's stream ends
\* before it yields a message.
NextManager ==
    \/ \E t \in TaskIds, w \in BOOLEAN : CreateTaskNew(t, w)
    \/ ConnectReturns
    \/ \E cls \in ConnectErrors : ConnectRaises(cls)
    \/ \E t \in TaskIds, sid \in SessionIds : CreateTaskReuse(t, sid)
    \/ \E i \in Subs : ExecStreamEnds(i)
    \/ \E sid \in SessionIds : DeleteSession(sid)
    \/ \E ok \in BOOLEAN : DeleteDisconnected(ok)
    \/ CleanupWake
    \/ \E ok \in BOOLEAN : CleanupDisconnected(ok)
    \/ StopCancel
    \/ StopDisconnectAll
    \/ Tick

SpecManager == Init /\ [][NextManager]_vars

\* One task and its streams: the task is submitted once, the agent's stream
\* runs, stream handlers are opened for it, it is interrupted.  No session
\* is deleted or reaped and the clock stands still.
StreamTask == "t1"

NextStream ==
    \/ nsub = 0 /\ CreateTaskNew(StreamTask, TRUE)
    \/ ConnectReturns
    \/ \E i \in Subs, m \in AgentMessages : ExecMessage(i, m)
    \/ \E i \in Subs : ExecStreamEnds(i)
    \/ \E i \in Subs, e \in AgentErrors : ExecStreamRaises(i, e)
    \/ \E i \in Subs : ExecTimeout(i)
    \/ \E h \in Handlers : WsOpen(h, StreamTask)
    \/ \E h \in Handlers : ClientDisconnect(h)
    \/ \E h \in Handlers : WsSleep(h)
    \/ \E h \in Handlers : WsNotFound(h)
    \/ \E h \in Handlers : WsSubscribe(h)
    \/ \E h \in Handlers : WsForward(h)
    \/ InterruptTask(StreamTask)
    \/ \E ok \in BOOLEAN : InterruptReturns(ok)

SpecStream == Init /\ [][NextStream]_vars

\* SpecStream under the event loop's scheduling: a connect in flight
\* returns, the executor of a running task terminates (its stream ends or
\* its timeout fires), and a handler that can take a step takes it.
SpecStreamLive ==
    /\ SpecStream
    /\ WF_vars(ConnectReturns)
    /\ WF_vars(\E i \in Subs : ExecStreamEnds(i) \/ ExecTimeout(i))
    /\ \A h \in Handlers :
           WF_vars(WsSleep(h) \/ WsNotFound(h) \/ WsSubscribe(h) \/ WsForward(h))

\* One task, one stream and a later submission on the task's session: the
\* task is submitted and streamed to one client, which may go away, and a
\* second task is then submitted with reuse of the first task's session.
ReuseTask == "t2"

NextDropout ==
    \/ nsub = 0 /\ CreateTaskNew(StreamTask, TRUE)
    \/ ConnectReturns
    \/ nsub = 1 /\ CreateTaskReuse(ReuseTask, SessionIdOf(StreamTask))
    \/ \E i \in Subs, m \in AgentMessages : ExecMessage(i, m)
    \/ \E i \in Subs : ExecStreamEnds(i)
    \/ \E i \in Subs, e \in AgentErrors : ExecStreamRaises(i, e)
    \/ \E i \in Subs : ExecTimeout(i)
    \/ WsOpen(1, StreamTask)
    \/ ClientDisconnect(1)
    \/ WsSleep(1)
    \/ WsNotFound(1)
    \/ WsSubscribe(1)
    \/ WsForward(1)

SpecDropout == Init /\ [][NextDropout]_vars

\* Two executors on one session under a running clock: a task is submitted,
\* a second one is submitted with reuse of its session, and each executor
\* runs to one of its exits while time passes.
NextExecutor ==
    \/ nsub = 0 /\ CreateTaskNew(StreamTask, TRUE)
    \/ ConnectReturns
    \/ nsub = 1 /\ CreateTaskReuse(ReuseTask, SessionIdOf(StreamTask))
    \/ \E i \in Subs, m \in AgentMessages : ExecMessage(i, m)
    \/ \E i \in Subs : ExecStreamEnds(i)
    \/ \E i \in Subs, e \in AgentErrors : ExecStreamRaises(i, e)
    \/ \E i \in Subs : ExecTimeout(i)
    \/ Tick

SpecExecutor == Init /\ [][NextExecutor]_vars

\* One task, its background handle and its registry entry: the task is
\* submitted, its executor leaves execute on any of its exits, an exception
\* that escapes included, and the task is interrupted, while time passes.
NextHandle ==
    \/ nsub = 0 /\ CreateTaskNew(StreamTask, TRUE)
    \/ ConnectReturns
    \/ \E i \in Subs, m \in AgentMessages : ExecMessage(i, m)
    \/ \E i \in Subs : ExecStreamEnds(i)
    \/ \E i \in Subs, e \in AgentErrors : ExecStreamRaises(i, e)
    \/ \E i \in Subs : ExecTimeout(i)
    \/ \E i \in Subs : ExecEscapes(i)
    \/ InterruptTask(StreamTask)
    \/ \E ok \in BOOLEAN : InterruptReturns(ok)
    \/ Tick

SpecHandle == Init /\ [][NextHandle]_vars

\* Two tasks on one session and their interrupts: a task is submitted, a
\* second one is submitted with reuse of its session, each executor runs
\* until its stream ends or raises, and either task is interrupted.  The
\* clock stands still.
NextInterrupt ==
    \/ nsub = 0 /\ CreateTaskNew(StreamTask, TRUE)
    \/ ConnectReturns
    \/ nsub = 1 /\ CreateTaskReuse(ReuseTask, SessionIdOf(StreamTask))
    \/ \E i \in Subs : ExecStreamEnds(i)
    \/ \E i \in Subs, e \in AgentErrors : ExecStreamRaises(i, e)
    \/ \E t \in {StreamTask, ReuseTask} : InterruptTask(t)
    \/ \E ok \in BOOLEAN : InterruptReturns(ok)

SpecInterrupt == Init /\ [][NextInterrupt]_vars

\* ================================================================ claims
\* the started executors
Started == {i \in Subs : executor[i].pc # "none"}

\* the positions of the complete events in a sequence of events
Completes(evs) == {k \in 1..Len(evs) : evs[k].type = "complete"}

\* C1: every executor that has returned has published exactly one complete
\* event, and at no time has an executor published anything after a
\* complete event; on the success, the timeout and the agent-error exit.
\* (A task is one call of execute: the events are those of one executor.)
C1_OneTerminalEventLast ==
    \A i \in Started :
        LET evs == executor[i].emitted IN
        /\ Cardinality(Completes(evs)) <= 1
        /\ Completes(evs) \subseteq {Len(evs)}
        /\ executor[i].pc = "done" <=> Completes(evs) # {}

\* an executor returned through the agent-error exit after a message: its
\* last two publishes are the error and the complete event
C1_Witness ==
    \E i \in Started :
        LET evs == executor[i].emitted IN
        /\ executor[i].pc = "done"
        /\ Len(evs) >= 4
        /\ evs[Len(evs) - 1].type = "error"
        /\ evs[Len(evs)].type = "complete"

\* C2: the table never holds more than max_concurrent sessions; a creation
\* that passed the capacity check still has room when it inserts (the lock
\* is held across connect); and with the table full a submission that needs
\* a new session (its session id is not in the table) is answered 503,
\* whatever its workspace.  A refused submission is no step of the system,
\* so it adds nothing.
C2_CapacityBound ==
    /\ get_active_count <= max_concurrent
    /\ lock = "create" => get_active_count < max_concurrent
    /\ (lock = "free" /\ get_active_count >= max_concurrent) =>
           \A t \in TaskIds, w \in BOOLEAN :
               sessions[SessionIdOf(t)] = 0 => create_task_new_code(t, w) = 503

\* the table is full, the server could still take a submission, and one
\* with a new session id is answered 503
C2_Witness ==
    /\ running = "up"
    /\ lock = "free"
    /\ nsub < MaxSubmits
    /\ get_active_count = max_concurrent
    /\ \E t \in TaskIds :
           sessions[SessionIdOf(t)] = 0 /\ create_task_new_code(t, TRUE) = 503

\* handler h sends an event to its client in this step
Forwards(h) ==
    /\ handler[h].pc = "stream"
    /\ handler[h].connected
    /\ \/ handler'[h].pc = "closed"
       \/ handler'[h].received # handler[h].received

\* C3: every event a stream handler sends to its client was published by
\* the same executor as, and later than, every event the handler sent
\* before: the client sees the events in publish order, none twice.
C3_PublishOrder ==
    [][\A h \in Handlers :
          Forwards(h) =>
              LET ev == Head(queues[handler[h].queue])
                  got == handler[h].received
              IN \A k \in 1..Len(got) : got[k].src = ev.src /\ got[k].n < ev.n]_vars

\* a connected handler has sent two events and the complete event is next
C3_Witness ==
    \E h \in Handlers :
        /\ handler[h].pc = "stream"
        /\ handler[h].connected
        /\ Len(handler[h].received) >= 2
        /\ queues[handler[h].queue] # <<>>
        /\ Head(queues[handler[h].queue]).type = "complete"

\* C4: no two stream handlers dequeue from the same task's queue (a second
\* subscription for a task id whose queue is held would have been rejected).
C4_OneSubscriberPerQueue ==
    \A g, h \in Handlers :
        (g # h /\ handler[g].pc = "stream" /\ handler[h].pc = "stream") =>
            handler[g].queue # handler[h].queue

\* C5: during a reaper pass, a session that owned a task at the idle check
\* stays in the table through every step of the pass, its last included,
\* and every session that leaves the table has an empty task list at the
\* step that removes it: no task was added after the idle check.
C5_ReaperSparesOwners ==
    [][lock = "reaper" =>
          /\ \A sid \in swept.busy : sessions[sid] # 0 /\ sessions'[sid] = sessions[sid]
          /\ \A sid \in SessionIds :
                 (sessions[sid] # 0 /\ sessions'[sid] = 0) =>
                     session[sessions[sid]].tasks = <<>>]_vars

\* a reaper pass is under way over an idle session, beside a session that
\* owned a task at the idle check, and a further submission could be made
C5_Witness ==
    /\ running = "up"
    /\ lock = "reaper"
    /\ swept.busy # {}
    /\ idle_sessions # <<>>
    /\ nsub < MaxSubmits

\* C6: when a reaper pass ends (not cancelled by shutdown), every session it
\* found idle at its start is absent from the table.
C6_IdleSessionsReaped ==
    [][(lock = "reaper" /\ lock' = "free" /\ running' = "up") =>
          \A sid \in swept.idle : sessions'[sid] = 0]_vars

\* C7: once interrupt_task has marked a task INTERRUPTED, a status query for
\* the task reports INTERRUPTED, whether or not its executor has finished.
C7_InterruptedStatusSticks ==
    \A t \in TaskIds :
        (running_tasks[t] # 0 /\ task_info[running_tasks[t]].status = "interrupted") =>
            get_task_status_response(t).status = "interrupted"

\* C8: an executor whose task was marked INTERRUPTED before it returns
\* publishes a complete event with exit_code 1, however its stream ended.
C8_InterruptedExitCode ==
    [][\A i \in Subs :
          (executor[i].pc = "recv" /\ executor'[i].pc = "done"
             /\ task_info[i].status = "interrupted") =>
              executor'[i].emitted[Len(executor'[i].emitted)].exit_code = 1]_vars

\* the subscriber of the streamed task went away: the handler's client is
\* gone, or the handler ended on the failed send
Dropped ==
    \/ handler[1].pc = "stream" /\ ~handler[1].connected
    \/ handler[1].pc = "closed" /\ handler[1].close_code = 0

C10_NoEventBeforeSubscribeLost ==
    [][\A h \in Handlers :
          (/\ Forwards(h)
           /\ handler[h].retries < retries_init
           /\ \A g \in Handlers \ {h} : handler[g].pc = "unopened") =>
              Head(queues[handler[h].queue]).n = Len(handler[h].received) + 1]_vars

\* the positions of the progress events in a sequence of events
Progresses(evs) == {k \in 1..Len(evs) : evs[k].type = "progress"}

\* C11: over the progress events one executor has published, in publish
\* order, turns never decreases and elapsed_time_ms never decreases.
C11_ProgressMonotone ==
    \A i \in Started :
        LET evs == executor[i].emitted IN
        \A j, k \in Progresses(evs) :
            j < k => /\ evs[j].progress.turns <= evs[k].progress.turns
                     /\ evs[j].progress.elapsed_time_ms <= evs[k].progress.elapsed_time_ms

\* C12: the step in which the timeout ends an executor publishes exactly
\* two events, an error event with the text "Task execution timed out" and
\* then a complete event with exit_code 1 and errors <<"Timeout">>; the
\* executor has published no complete event with exit_code 0.
C12_TimeoutEvents ==
    [][\A i \in Subs :
          ExecTimeout(i) =>
              LET evs == executor'[i].emitted
                  n == Len(evs)
              IN /\ n = Len(executor[i].emitted) + 2
                 /\ evs[n - 1].type = "error"
                 /\ evs[n - 1].error = "Task execution timed out"
                 /\ evs[n].type = "complete"
                 /\ evs[n].exit_code = 1
                 /\ evs[n].errors = <<"Timeout">>
                 /\ \A k \in Completes(evs) : evs[k].exit_code # 0]_vars

\* an executor that had published a message was ended by the timeout
C12_Witness ==
    \E i \in Started :
        LET evs == executor[i].emitted IN
        /\ executor[i].pc = "done"
        /\ evs[1].type = "message"
        /\ evs[Len(evs)].errors = <<"Timeout">>

C14_FailedStatus ==
    \A t \in TaskIds :
        LET i == running_tasks[t] IN
        (/\ i # 0
         /\ executor[i].pc = "done"
         /\ executor[i].emitted[Len(executor[i].emitted)].exit_code = 1) =>
            /\ get_task_status_response(t).status = "failed"
            /\ sessions[task_info[i].session_id] # 0

\* C15: a submission without reuse whose session id is in the table is
\* answered 400; with the id not in the table and the table full, 503;
\* with room in the table and the workspace missing, 400.  A submission
\* goes on to connect, insert, register and start only when none of the
\* three holds: the one creation in flight passed every check.
C15_SubmitErrorCodes ==
    /\ \A t \in TaskIds, w \in BOOLEAN :
           LET sid == SessionIdOf(t)
               code == create_task_new_code(t, w)
               full == get_active_count >= max_concurrent
           IN /\ sessions[sid] # 0 => code = 400
              /\ (sessions[sid] = 0 /\ full) => code = 503
              /\ (sessions[sid] = 0 /\ ~full /\ ~w) => code = 400
              /\ (sessions[sid] = 0 /\ ~full /\ w) => code = 200
    /\ lock = "create" =>
           /\ sessions[pending.session_id] = 0
           /\ get_active_count < max_concurrent

\* one session is in the table and a further submission could be made: a
\* submission with its id is answered 400, one with a new id and a missing
\* workspace 400, one with a new id and a workspace 200
C15_Witness ==
    /\ running = "up"
    /\ lock = "free"
    /\ nsub < MaxSubmits
    /\ get_active_count = 1
    /\ \E t \in TaskIds :
           sessions[SessionIdOf(t)] # 0 /\ create_task_new_code(t, TRUE) = 400
    /\ \E t \in TaskIds :
           /\ sessions[SessionIdOf(t)] = 0
           /\ create_task_new_code(t, FALSE) = 400
           /\ create_task_new_code(t, TRUE) = 200

\* C16: a submission that reuses a session id which is not in the table is
\* answered 404.
C16_ReuseMissingSession404 ==
    \A t \in TaskIds, sid \in SessionIds :
        sessions[sid] = 0 => create_task_reuse_code(t, sid) = 404

\* C17: when client.connect() raises during create_session, the table is
\* left as it was and the submission is answered 503.
C17_ConnectFailure503 ==
    [][\A cls \in ConnectErrors :
          ConnectRaises(cls) => (sessions' = sessions /\ status_code(cls) = 503)]_vars

\* C18: no two running executors use the same session (a submission that
\* reuses a session with a running task would have been rejected).
C18_OneExecutorPerSession ==
    \A i, j \in Started :
        (i # j /\ executor[i].pc = "recv" /\ executor[j].pc = "recv") =>
            executor[i].session # executor[j].session

\* C19: while the executor registered for a task id is running, no step
\* replaces the registry entry of that task id (a submission with the id
\* would have been rejected on either path).
C19_LiveTaskIdUnique ==
    [][\A t \in TaskIds :
          (running_tasks[t] # 0 /\ executor[running_tasks[t]].pc = "recv") =>
              running_tasks'[t] = running_tasks[t]]_vars

\* C20: a delete_session call that found its id in the table ends with the
\* id absent from the table, whether disconnect() returned or raised; a
\* call goes that far only for an id in the table, and for an id that is
\* not in the table the answer is 404.
C20_DeleteSessionRemoves ==
    /\ [](\A sid \in SessionIds :
             delete_session_code(sid) = (IF sessions[sid] = 0 THEN 404 ELSE 200))
    /\ [](lock = "delete" => sessions[pending.session_id] # 0)
    /\ [][(lock = "delete" /\ lock' # "delete") =>
              sessions'[pending.session_id] = 0]_vars

\* a session left the table through a delete_session whose disconnect()
\* raised: its client was never disconnected
C20_Witness ==
    /\ running = "up"
    /\ \E i \in Subs :
           /\ session[i].client = "connected"
           /\ sessions[session[i].session_id] = 0

\* C21: a handler with a connected client leaves the wait loop in one of
\* two ways.  If its task id is not in the registry, it has used up its
\* polls, sends one error frame and closes with 1008, and no session or
\* queue changes (no queue is made).  If the task id is in the registry,
\* it subscribes: it holds a queue and has sent no error frame.
C21_GraceWindow ==
    [][\A h \in Handlers :
          (handler[h].pc = "poll" /\ handler'[h].pc # "poll" /\ handler[h].connected) =>
              IF running_tasks[handler[h].task_id] = 0
              THEN /\ handler[h].retries = 0
                   /\ handler'[h] = ClosedHandler(1008, 1)
                   /\ session' = session
                   /\ queues' = queues
              ELSE /\ handler'[h].pc = "stream"
                   /\ handler'[h].queue # 0
                   /\ handler'[h].error_frames = 0]_vars

\* one handler gave up with 1008 and another, which slept in the wait loop,
\* found the task and subscribed
C21_Witness ==
    \E g, h \in Handlers :
        /\ handler[g].pc = "closed" /\ handler[g].close_code = 1008
        /\ handler[h].pc = "stream" /\ handler[h].retries < retries_init

\* C22: the readiness check answers 200 when the table holds fewer than
\* max_concurrent sessions and 503 otherwise.
C22_Readiness ==
    /\ get_active_count < max_concurrent => readiness_check = 200
    /\ get_active_count >= max_concurrent => readiness_check = 503

\* the table is full and the readiness check answers 503
C22_Witness ==
    /\ running = "up"
    /\ get_active_count = max_concurrent
    /\ readiness_check = 503

\* C23: the step that completes a submission of t without reuse puts a new
\* Session with id "session-" + t and task list <<t>> into the table under
\* that id, registers t with that session id and status RUNNING, starts
\* the one executor of the new entry for t on that session and no other,
\* and answers with task_id t and status RUNNING.
C23_SubmitNew ==
    [][(lock = "create" /\ lock' = "free" /\ nsub' # nsub) =>
          LET t == pending.task_id
              sid == SessionIdOf(t)
              i == nsub'
          IN /\ i = nsub + 1
             /\ sessions[sid] = 0 /\ sessions'[sid] = i
             /\ \A o \in SessionIds \ {sid} : sessions'[o] = sessions[o]
             /\ session'[i].session_id = sid
             /\ session'[i].tasks = <<t>>
             /\ running_tasks'[t] = i
             /\ task_info'[i] = [task_id |-> t, session_id |-> sid, status |-> "running"]
             /\ executor[i].pc = "none" /\ executor'[i].pc = "recv"
             /\ executor'[i].task_id = t /\ executor'[i].session = i
             /\ \A j \in Subs \ {i} : executor'[j] = executor[j]
             /\ TaskResponse(t, sid).task_id = t
             /\ TaskResponse(t, sid).status = "running"]_vars

\* a submission without reuse has completed for a second task: its session
\* is in the table under "session-" + t, owns t, and its executor runs
C23_Witness ==
    \E t \in TaskIds :
        /\ running_tasks[t] = 2
        /\ sessions[SessionIdOf(t)] = 2
        /\ session[2].tasks = <<t>>
        /\ executor[2].pc = "recv"
        /\ task_info[2].status = "running"

\* C24: a status query for a task id that is not in the registry (entries
\* are never removed, so: never registered) is answered 404; for a
\* registered task it is answered 200 with FAILED if the background task
\* finished with an exception, COMPLETED if it finished without one, and
\* else the status stored in the entry, which is RUNNING or INTERRUPTED.
C24_StatusDerivation ==
    \A t \in TaskIds :
        LET r == get_task_status_response(t)
            i == running_tasks[t]
        IN IF i = 0 THEN r.code = 404
           ELSE /\ r.code = 200
                /\ (executor[i].pc = "done" /\ executor[i].exception) =>
                       r.status = "failed"
                /\ (executor[i].pc = "done" /\ ~executor[i].exception) =>
                       r.status = "completed"
                /\ executor[i].pc # "done" =>
                       /\ r.status = task_info[i].status
                       /\ r.status \in {"running", "interrupted"}

\* a task that was marked INTERRUPTED finished with an exception and is
\* reported FAILED
C24_Witness ==
    \E t \in TaskIds :
        LET i == running_tasks[t] IN
        /\ i # 0
        /\ executor[i].pc = "done" /\ executor[i].exception
        /\ task_info[i].status = "interrupted"
        /\ get_task_status_response(t).status = "failed"

\* what handler h has sent to its client, followed by what waits in its queue
Delivered(h) == handler[h].received \o queues[handler[h].queue]

\* C25: an executor that gets an Assistant message with one text block as
\* its first message publishes a message event (assistant) and a progress
\* event with turns 1; a Result message that follows makes it publish a
\* progress event with the Result's total_tokens and a complete event with
\* exit_code 0, and nothing else.  A handler that is the only stream of
\* the task and subscribed before the first publish has sent or has queued
\* exactly the events published, in publish order.
C25_TextThenResult ==
    /\ [](\A h \in Handlers :
             (/\ handler[h].pc = "stream"
              /\ \A g \in Handlers \ {h} : handler[g].pc = "unopened"
              /\ Delivered(h) # <<>>
              /\ Delivered(h)[1].n = 1) =>
                 Delivered(h) = executor[running_tasks[handler[h].task_id]].emitted)
    /\ [][\A i \in Subs :
              LET old == executor[i].emitted
                  new == executor'[i].emitted
              IN /\ (ExecMessage(i, AssistantMessage(<<Block("text", "", 0)>>))
                      /\ old = <<>>) =>
                         /\ Len(new) = 2
                         /\ new[1].type = "message"
                         /\ new[1].message_type = "assistant"
                         /\ new[2].type = "progress"
                         /\ new[2].progress.turns = 1
                 /\ \A m \in AgentMessages :
                        (/\ m.kind = "result"
                         /\ ExecMessage(i, m)
                         /\ Len(old) = 2
                         /\ old[1].type = "message") =>
                            /\ Len(new) = 4
                            /\ new[1] = old[1] /\ new[2] = old[2]
                            /\ new[3].type = "progress"
                            /\ new[3].progress.tokens_used = m.total_tokens
                            /\ new[4].type = "complete"
                            /\ new[4].exit_code = 0]_vars

\* the only handler of the task has sent its client the message event and
\* the two progress events, the second with the Result's tokens, and the
\* complete event with exit_code 0 is the one event in its queue
C25_Witness ==
    \E h \in Handlers :
        /\ handler[h].pc = "stream" /\ handler[h].connected
        /\ \A g \in Handlers \ {h} : handler[g].pc = "unopened"
        /\ Len(handler[h].received) = 3
        /\ handler[h].received[1].type = "message"
        /\ handler[h].received[2].type = "progress"
        /\ handler[h].received[3].type = "progress"
        /\ handler[h].received[3].progress.tokens_used = 1
        /\ Len(queues[handler[h].queue]) = 1
        /\ queues[handler[h].queue][1].type = "complete"
        /\ queues[handler[h].queue][1].exit_code = 0

\* the tool-result blocks of message m whose payload holds a success text
SuccessBlocks(m) ==
    {k \in 1..Len(m.blocks) :
        m.blocks[k].kind = "tool_result" /\ m.blocks[k].hits > 0}

\* C26: the step that handles an Assistant message raises files_modified
\* by one for each of its tool-result blocks whose payload holds a success
\* text and by nothing else, never lowers it, and ends with a progress
\* event that shows the new count, after the tool_result events.
C26_FilesModified ==
    [][\A i \in Subs, m \in AgentMessages :
          (m.kind = "assistant" /\ ExecMessage(i, m)) =>
              LET new == executor'[i].emitted IN
              /\ executor'[i].progress.files_modified =
                     executor[i].progress.files_modified + Cardinality(SuccessBlocks(m))
              /\ executor'[i].progress.files_modified >=
                     executor[i].progress.files_modified
              /\ new[Len(new)].type = "progress"
              /\ new[Len(new)].progress.files_modified =
                     executor'[i].progress.files_modified]_vars

\* C27: when an executor returns from execute, its task id is not in the
\* task list of its session.
C27_TaskRemovedOnReturn ==
    [][\A i \in Subs :
          (executor[i].pc = "recv" /\ executor'[i].pc = "done") =>
              LET tasks == session'[executor[i].session].tasks IN
              \A k \in 1..Len(tasks) : tasks[k] # executor[i].task_id]_vars

\* C28: every handler that has subscribed to its task's queue eventually
\* ends, given that the task's executor terminates.
C28_HandlersStop ==
    \A h \in Handlers : (handler[h].pc = "stream") ~> (handler[h].pc = "closed")

\* C29: no event queue ever holds more than max_queue_size undelivered
\* events (a publish to a full queue would have suspended the executor).
C29_QueueBounded ==
    \A h \in Handlers : Len(queues[h]) <= max_queue_size

\* C30: while the server is up, the session id stored for a running
\* executor's task names a session in the table, and that session is the
\* executor's own.
C30_SessionLiveWhileTaskRuns ==
    running = "up" =>
        \A i \in Started :
            executor[i].pc = "recv" =>
                sessions[task_info[i].session_id] = executor[i].session


\* C31: the last_activity of a session never decreases, and every step that
\* changes the session's task list (add_task, remove_task) or in which an
\* executor publishes on the session leaves last_activity at the time of
\* the step.
C31_LastActivityAdvances ==
    [][\A k \in Subs :
          /\ session'[k].last_activity >= session[k].last_activity
          /\ session'[k].tasks # session[k].tasks
                 => session'[k].last_activity = now'
          /\ \A i \in Subs :
                 /\ executor[i].session = k
                 /\ Len(executor'[i].emitted) > Len(executor[i].emitted)
                 => session'[k].last_activity = now']_vars

C33_TerminalStatusAbsorbing ==
    [][\A t \in TaskIds :
          get_task_status_response(t).status \in {"completed", "failed", "interrupted"}
          => get_task_status_response(t)'.status
                 = get_task_status_response(t).status]_vars

\* C34: the step that receives a ResultMessage publishes, before complete,
\* a progress event that carries the message's token total, its num_turns
\* as turns and its duration_ms as elapsed_time_ms, and the executor
\* consumes no further message.
C34_ResultProgress ==
    [][\A i \in Subs, m \in AgentMessages :
          m.kind = "result" /\ ExecMessage(i, m)
          => LET evs == executor'[i].emitted
                 p == evs[Len(evs) - 1]
             IN /\ p.type = "progress"
                /\ p.progress.tokens_used = m.total_tokens
                /\ p.progress.turns = m.num_turns
                /\ p.progress.elapsed_time_ms = m.duration_ms
                /\ executor'[i].pc = "done"]_vars

C36_StopEmptiesTable ==
    /\ [](running # "up" => lock # "reaper")
    /\ [](running = "stopped" => \A sid \in SessionIds : sessions[sid] = 0)
    /\ [][running' = "stopped" /\ running # "stopped" => running = "stopping"]_vars

\* C36: shutdown cancels the reaper before it disconnects any session, the
\* table is empty when stop has returned, and an executor that is still
\* running when stop has returned ends with a complete event of exit code 1.
C36_Shutdown ==
    /\ C36_StopEmptiesTable
    /\ [][\A i \in Subs :
              /\ running = "stopped"
              /\ executor[i].pc = "recv"
              /\ executor'[i].pc = "done"
              => LET evs == executor'[i].emitted
                 IN evs[Len(evs)].type = "complete" /\ evs[Len(evs)].exit_code = 1]_vars

\* C37: once the executor of a registered task has published complete, the
\* status query for the task carries a result, with the exit code and the
\* errors of the complete event.
C37_StatusCarriesResult ==
    \A t \in TaskIds :
        LET i == running_tasks[t]
            evs == executor[i].emitted
        IN i # 0 /\ Completes(evs) # {}
           => LET ev == evs[Len(evs)]
                  r == get_task_status_result(i)
              IN /\ r # <<>>
                 /\ r[1].exit_code = ev.exit_code
                 /\ r[1].errors = ev.errors

\* C38: when interrupt_task for task t calls interrupt() on the client of
\* t's session, no executor other than t's is running on that session.
C38_InterruptOnlyOwnTask ==
    [][\A t \in TaskIds :
          InterruptTask(t)
          => LET i == running_tasks[t]
                 s == sessions[task_info[i].session_id]
             IN \A j \in Started :
                    executor[j].session = s /\ executor[j].pc = "recv" => j = i]_vars

\* C39: a queue that is in a session's queue map for a task belongs to a
\* handler that is in its streaming loop for that task on that session and
\* holds that queue, and every step in which a subscribed handler ends
\* leaves the task without a queue in the map.
C39_QueueOnlyWhileSubscribed ==
    /\ [](\A k \in Subs, t \in TaskIds :
              session[k].event_queues[t] # 0
              => \E h \in Handlers :
                     /\ handler[h].pc = "stream"
                     /\ handler[h].session = k
                     /\ handler[h].task_id = t
                     /\ handler[h].queue = session[k].event_queues[t])
    /\ [][\A h \in Handlers :
              handler[h].pc = "stream" /\ handler'[h].pc # "stream"
              => /\ handler'[h].pc = "closed"
                 /\ session'[handler[h].session].event_queues[handler[h].task_id] = 0]_vars

\* the first handler has forwarded complete and ended, which took the
\* queue off the map, while a second handler of the task is still in its
\* streaming loop
C39_Witness ==
    /\ handler[1].pc = "closed"
    /\ handler[1].close_code = 1000
    /\ handler[2].pc = "stream"
    /\ session[1].event_queues[StreamTask] = 0

\* C40: no step takes a task id out of the registry, the active_tasks
\* figure of the health check never decreases, and it counts every
\* registered id, those of finished tasks included.
C40_RegistryOnlyGrows ==
    /\ [](active_tasks >= Cardinality({t \in TaskIds :
                                          /\ running_tasks[t] # 0
                                          /\ executor[running_tasks[t]].pc = "done"}))
    /\ [][/\ \A t \in TaskIds : running_tasks[t] # 0 => running_tasks'[t] # 0
          /\ active_tasks' >= active_tasks]_vars

\* two tasks are registered and counted, both have finished and their
\* sessions are gone from the table
C40_Witness ==
    /\ active_tasks = 2
    /\ get_active_count = 0
    /\ \A t \in TaskIds :
           running_tasks[t] # 0 => executor[running_tasks[t]].pc = "done"
====
